---- MODULE Spec2Model ----
(***************************************************************************)
(* Model of mistral_ocr.py: main() drives credential loading, input        *)
(* resolution (URL or upload + signed URL), the OCR call, and              *)
(* create_markdown_file(), which writes the page texts through a buffered  *)
(* text stream and saves every page image with save_image().               *)
(*                                                                         *)
(* Text is a sequence of code points, file content a sequence of bytes.    *)
(* The output directory is modelled as a map from file names to entries;   *)
(* the Markdown file is written through a buffer (io's buffered writer)    *)
(* whose bytes reach the file at the descriptor's own offset, as on POSIX. *)
(***************************************************************************)
EXTENDS Integers, Sequences, FiniteSets, TLC

\* ------------------------------------------------------------------ bounds
\* size of one OCR response: its pages plus the images they carry
MaxSize == 4
\* capacity of the stream buffer, scaled down from io.DEFAULT_BUFFER_SIZE
BufferSize == 3

\* --------------------------------------------------------------- constants
None == "<None>"
OutputName == "x.md"

Sources == {"", "https://example.com/doc.pdf"}
InputKinds == {"absent", "dir", "file", "unreadable"}
\* what the path Path(source) can be on disk: Path("") is the current
\* directory; with --url the path is never looked at and an existing file
\* stands for every kind
KindsOf(source, url) ==
  IF source = "" THEN {"dir"}
  ELSE IF url THEN {"file"}
  ELSE InputKinds
FileIds == {"file-1", "file-2"}
SignedUrls == {"", "https://signed.example/1"}
ImageIds == {OutputName, "img-1"}
Names == ImageIds

\* ----------------------------------------------------------- text and bytes
RECURSIVE Concat(_)
Concat(ss) == IF ss = <<>> THEN <<>> ELSE Head(ss) \o Concat(Tail(ss))

\* str.encode("utf-8") for one code point below U+10000
Utf8(cp) ==
  IF cp < 128 THEN <<cp>>
  ELSE IF cp < 2048 THEN <<192 + (cp \div 64), 128 + (cp % 64)>>
  ELSE <<224 + (cp \div 4096), 128 + ((cp \div 64) % 64), 128 + (cp % 64)>>

\* os.linesep on a POSIX build: text mode writes "\n" as one byte 10
Linesep == <<10>>

\* what f.write(text) hands to the byte buffer of a file opened "wt", utf-8
EncodeText(text) ==
  Concat([k \in 1..Len(text) |->
            IF text[k] = 10 THEN Linesep ELSE Utf8(text[k])])

Separator == <<10, 10>>

Texts == {<<97>>, <<233, 10>>}

\* pwrite: bytes written at offset pos of a file holding data (holes read 0)
WriteAt(data, pos, new) ==
  LET end == pos + Len(new)
      len == IF end > Len(data) THEN end ELSE Len(data)
  IN [k \in 1..len |->
        IF k > pos /\ k <= end THEN new[k - pos]
        ELSE IF k <= Len(data) THEN data[k] ELSE 0]

\* ---------------------------------------------------------------- data URIs
\* A payload is the data-URI string split into its header tokens and the
\* base64 body given as sextets (64 stands for the pad character '=').
Pad == 64
EmptyPayload == [head |-> <<>>, body |-> <<>>]
NoSchemePayload == [head |-> <<"image/png", ";base64", ",">>, body |-> <<16, 16, Pad, Pad>>]
PayloadA == [head |-> <<"data:", "image/png", ";base64", ",">>, body |-> <<16, 16, Pad, Pad>>]
PayloadBCD == [head |-> <<"data:", "image/png", ";base64", ",">>, body |-> <<16, 36, 13, 4>>]
Payloads == {EmptyPayload, NoSchemePayload, PayloadA, PayloadBCD}

ParseError == <<-1>>

\* base64 decoding of one group of four sextets
B64Group(g) ==
  LET b1 == (g[1] * 4 + (g[2] \div 16)) % 256
      b2 == ((g[2] % 16) * 16 + (g[3] \div 4)) % 256
      b3 == ((g[3] % 4) * 64 + g[4]) % 256
  IN IF g[3] = Pad THEN <<b1>>
     ELSE IF g[4] = Pad THEN <<b1, b2>>
     ELSE <<b1, b2, b3>>

B64Valid(body) ==
  /\ Len(body) % 4 = 0
  /\ \A k \in 1..Len(body) :
       body[k] = Pad => /\ k > Len(body) - 2
                        /\ (k = Len(body) - 1 => body[Len(body)] = Pad)

B64Decode(body) ==
  Concat([g \in 1..(Len(body) \div 4) |->
            B64Group(SubSeq(body, 4 * g - 3, 4 * g))])

\* datauri.parse(image.image_base64).data, or ParseError when it raises
DataUriParse(p) ==
  IF /\ Len(p.head) >= 2
     /\ p.head[1] = "data:"
     /\ p.head[Len(p.head)] = ","
     /\ B64Valid(p.body)
  THEN B64Decode(p.body)
  ELSE ParseError

\* ------------------------------------------------------------ OCR documents
Images == [id : ImageIds, image_base64 : Payloads]

RECURSIVE SeqsOfLen(_, _)
SeqsOfLen(S, n) ==
  IF n = 0 THEN {<<>>}
  ELSE {Append(s, x) : s \in SeqsOfLen(S, n - 1), x \in S}

\* pages carrying exactly n images
PagesWith(n) == [markdown : Texts, images : SeqsOfLen(Images, n)]

\* every image of the response, in page order and then in listed order
AllImages(doc) == Concat([k \in 1..Len(doc) |-> doc[k].images])

\* responses whose pages and images number at most size in all
RECURSIVE Responses(_)
Responses(size) ==
  IF size = 0 THEN {<<>>}
  ELSE {<<>>} \cup
       UNION {{<<page>> \o rest : page \in PagesWith(n),
                                  rest \in Responses(size - 1 - n)} : n \in 0..(size - 1)}

Documents == Responses(MaxSize)

\* ------------------------------------------------------------------- state
VARIABLES
  pc,            \* position of main()
  env_has_key,   \* MISTRAL_API_KEY is in os.environ
  use_url,       \* args.url
  input_source,  \* args.input_source
  input_kind,    \* what the path input_source is on disk
  document_url,  \* main's local document_url
  uploaded_id,   \* uploaded_pdf.id
  trace,         \* input-file accesses and remote calls, in order
  ocr_response,  \* pages of the OCR response
  out_dir,       \* output_file.parent on disk: "absent", "dir" or "file"
  fs,            \* entries of the output directory, by name
  buf,           \* bytes written to f and not yet in the file
  fpos,          \* offset of f's descriptor
  i,             \* index of the page being processed (1-based)
  j,             \* index of the image being processed (1-based)
  img_log,       \* what save_image logged for every image, in order
  error,         \* which logging.error preceded sys.exit(1), or None
  exit_status,   \* -1 while running, else the process exit status
  stdout         \* lines printed to standard output

vars == <<pc, env_has_key, use_url, input_source, input_kind, document_url,
          uploaded_id, trace, ocr_response, out_dir, fs, buf, fpos, i, j,
          img_log, error, exit_status, stdout>>

inputs == <<env_has_key, use_url, input_source, input_kind>>
remote == <<document_url, uploaded_id, trace, ocr_response>>
output == <<out_dir, fs, buf, fpos, i, j, img_log>>
running == <<error, exit_status, stdout>>

Absent == [kind |-> "absent", data |-> <<>>]
Directory == [kind |-> "dir", data |-> <<>>]
File(data) == [kind |-> "file", data |-> data]
OldData == <<111, 108, 100, 33>>

\* states of an existing output directory before the run
InitialDirs ==
  { [n \in Names |-> File(OldData)],
    [n \in Names |-> IF n = OutputName THEN Directory ELSE Absent],
    [n \in Names |-> IF n = OutputName THEN Absent ELSE Directory] }

Init ==
  /\ pc = "credential"
  /\ env_has_key \in BOOLEAN
  /\ use_url \in BOOLEAN
  /\ input_source \in Sources
  /\ input_kind \in KindsOf(input_source, use_url)
  /\ document_url = None
  /\ uploaded_id = None
  /\ trace = <<>>
  /\ ocr_response = <<>>
  /\ \/ /\ out_dir = "dir"
        /\ fs \in InitialDirs
     \/ /\ out_dir \in {"absent", "file"}
        /\ fs = [n \in Names |-> Absent]
  /\ buf = <<>>
  /\ fpos = 0
  /\ i = 0
  /\ j = 0
  /\ img_log = <<>>
  /\ error = None
  /\ exit_status = -1
  /\ stdout = <<>>

\* logging.error(...); sys.exit(1)
Exit1(cause) ==
  /\ pc' = "exited"
  /\ error' = cause
  /\ exit_status' = 1
  /\ UNCHANGED stdout

Call(op, arg, ret) == [op |-> op, arg |-> arg, ret |-> ret]
Raised == "<raised>"

\* ------------------------------------------------------------ main: setup
\* variant: the key is read with a default and a missing key goes unnoticed
LoadCredentialLenient ==
  /\ pc = "credential"
  /\ \/ Exit1("client_init")
     \/ /\ pc' = "resolve"
        /\ UNCHANGED running
  /\ UNCHANGED <<inputs, remote, output>>

\* api_key = os.environ[...]; client = Mistral(api_key=api_key)
LoadCredential ==
  /\ pc = "credential"
  /\ IF ~env_has_key
     THEN Exit1("no_api_key")
     ELSE \/ Exit1("client_init")
          \/ /\ pc' = "resolve"
             /\ UNCHANGED running
  /\ UNCHANGED <<inputs, remote, output>>

\* variant: the existence check runs before the --url branch
ResolveUrlAfterStat ==
  /\ pc = "resolve"
  /\ use_url
  /\ trace' = Append(trace, Call("stat_input", input_source, input_kind))
  /\ document_url' = input_source
  /\ pc' = "check_url"
  /\ UNCHANGED <<inputs, uploaded_id, ocr_response, output, running>>

\* if use_url: document_url = input_source
ResolveUrl ==
  /\ pc = "resolve"
  /\ use_url
  /\ document_url' = input_source
  /\ pc' = "check_url"
  /\ UNCHANGED <<inputs, uploaded_id, trace, ocr_response, output, running>>

\* variant: only exists() is tested, a directory passes
CheckInputFileExistsOnly ==
  /\ pc = "resolve"
  /\ ~use_url
  /\ trace' = Append(trace, Call("stat_input", input_source, input_kind))
  /\ IF input_kind = "absent"
     THEN Exit1("invalid_file")
     ELSE /\ pc' = "upload"
          /\ UNCHANGED running
  /\ UNCHANGED <<inputs, document_url, uploaded_id, ocr_response, output>>

\* else: pdf_file_path.exists() and pdf_file_path.is_file()
CheckInputFile ==
  /\ pc = "resolve"
  /\ ~use_url
  /\ trace' = Append(trace, Call("stat_input", input_source, input_kind))
  /\ IF input_kind \in {"absent", "dir"}
     THEN Exit1("invalid_file")
     ELSE /\ pc' = "upload"
          /\ UNCHANGED running
  /\ UNCHANGED <<inputs, document_url, uploaded_id, ocr_response, output>>

\* with pdf_file_path.open("rb") as file: client.files.upload(...)
Upload ==
  /\ pc = "upload"
  /\ IF input_kind # "file"
     THEN /\ trace' = Append(trace, Call("open_input", input_source, Raised))
          /\ Exit1("file_read")
          /\ UNCHANGED uploaded_id
     ELSE \/ /\ trace' = trace \o <<Call("open_input", input_source, "ok"),
                                    Call("upload", input_source, Raised)>>
             /\ Exit1("file_processing")
             /\ UNCHANGED uploaded_id
          \/ \E id \in FileIds :
               /\ trace' = trace \o <<Call("open_input", input_source, "ok"),
                                      Call("upload", input_source, id)>>
               /\ uploaded_id' = id
               /\ pc' = "signed"
               /\ UNCHANGED running
  /\ UNCHANGED <<inputs, document_url, ocr_response, output>>

\* variant: the file name is passed where the file identifier belongs
GetSignedUrlByName ==
  /\ pc = "signed"
  /\ \/ /\ trace' = Append(trace, Call("get_signed_url", input_source, Raised))
        /\ Exit1("file_processing")
        /\ UNCHANGED document_url
     \/ \E url \in SignedUrls :
          /\ trace' = Append(trace, Call("get_signed_url", input_source, url))
          /\ document_url' = url
          /\ pc' = "check_url"
          /\ UNCHANGED running
  /\ UNCHANGED <<inputs, uploaded_id, ocr_response, output>>

\* client.files.get_signed_url(file_id=uploaded_pdf.id)
GetSignedUrl ==
  /\ pc = "signed"
  /\ \/ /\ trace' = Append(trace, Call("get_signed_url", uploaded_id, Raised))
        /\ Exit1("file_processing")
        /\ UNCHANGED document_url
     \/ \E url \in SignedUrls :
          /\ trace' = Append(trace, Call("get_signed_url", uploaded_id, url))
          /\ document_url' = url
          /\ pc' = "check_url"
          /\ UNCHANGED running
  /\ UNCHANGED <<inputs, uploaded_id, ocr_response, output>>

\* if not document_url: sys.exit(1)
CheckDocumentUrl ==
  /\ pc = "check_url"
  /\ IF document_url \in {None, ""}
     THEN Exit1("no_document_url")
     ELSE /\ pc' = "invoke"
          /\ UNCHANGED running
  /\ UNCHANGED <<inputs, remote, output>>

\* client.ocr.process(model=OCR_MODEL, document={... document_url}, ...)
OcrProcess ==
  /\ pc = "invoke"
  /\ \/ /\ trace' = Append(trace, Call("ocr", document_url, Raised))
        /\ Exit1("ocr")
        /\ UNCHANGED ocr_response
     \/ \E doc \in Documents :
          /\ trace' = Append(trace, Call("ocr", document_url, "pages"))
          /\ ocr_response' = doc
          /\ pc' = "mkdir"
          /\ UNCHANGED running
  /\ UNCHANGED <<inputs, document_url, uploaded_id, output>>

\* -------------------------------------------------------------- save_image
\* variant: the payload is parsed without the emptiness test
SaveOutcomeNoEmptyCheck(image, files) ==
  IF DataUriParse(image.image_base64) = ParseError THEN "parse_error"
  ELSE IF files[image.id].kind = "dir" THEN "write_error"
  ELSE "written"

\* which branch of save_image the image takes in a directory holding files
SaveOutcome(image, files) ==
  IF image.image_base64 = EmptyPayload THEN "empty"
  ELSE IF DataUriParse(image.image_base64) = ParseError THEN "parse_error"
  ELSE IF files[image.id].kind = "dir" THEN "write_error"
  ELSE "written"

\* variant: the file is opened before the payload is parsed
SaveFilesOpenFirst(image, files) ==
  IF SaveOutcome(image, files) = "written"
  THEN [files EXCEPT ![image.id] = File(DataUriParse(image.image_base64))]
  ELSE IF SaveOutcome(image, files) = "parse_error"
  THEN [files EXCEPT ![image.id] = File(<<>>)]
  ELSE files

\* variant: the file is opened with "ab"
SaveFilesAppend(image, files) ==
  IF SaveOutcome(image, files) = "written"
  THEN [files EXCEPT ![image.id] =
          File(files[image.id].data \o DataUriParse(image.image_base64))]
  ELSE files

\* the directory after save_image: open(output_dir / image.id, "wb") creates
\* or truncates the file and the decoded bytes are written to it; opening a
\* directory raises, and every exception is logged and swallowed
SaveFiles(image, files) ==
  IF SaveOutcome(image, files) = "written"
  THEN [files EXCEPT ![image.id] = File(DataUriParse(image.image_base64))]
  ELSE files

\* ---------------------------------------------------- create_markdown_file
\* output_dir.mkdir(parents=True, exist_ok=True)
MakeOutputDir ==
  /\ pc = "mkdir"
  /\ IF out_dir = "file"
     THEN Exit1("save_result") /\ UNCHANGED out_dir
     ELSE /\ out_dir' = "dir"
          /\ pc' = "open"
          /\ UNCHANGED running
  /\ UNCHANGED <<inputs, remote, fs, buf, fpos, i, j, img_log>>

\* position after page k's text and images have been handled
AfterPage(k) ==
  IF k < Len(ocr_response)
  THEN /\ i' = k + 1 /\ j' = 0 /\ pc' = "page"
  ELSE /\ i' = k /\ j' = 0 /\ pc' = "close"

\* variant: the file is opened with "at"
TruncatedKeep(entry) == File(entry.data)

\* the entry open(output_file, "wt") leaves: created, or truncated
Truncated(entry) == File(<<>>)

\* with open(output_file, "wt", encoding="utf-8") as f: pages = ...
OpenOutput ==
  /\ pc = "open"
  /\ IF fs[OutputName].kind = "dir"
     THEN Exit1("markdown_write") /\ UNCHANGED <<fs, i, j>>
     ELSE /\ fs' = [fs EXCEPT ![OutputName] = Truncated(fs[OutputName])]
          /\ AfterPage(0)
          /\ UNCHANGED running
  /\ UNCHANGED <<inputs, remote, out_dir, buf, fpos, img_log>>

\* f.write(bytes): the stream state [data, pos, buf] after one write; the
\* buffer is written out at the descriptor's offset once it is over capacity
FWrite(st, bytes) ==
  LET pending == st.buf \o bytes
  IN IF Len(pending) > BufferSize
     THEN [data |-> WriteAt(st.data, st.pos, pending),
           pos |-> st.pos + Len(pending), buf |-> <<>>]
     ELSE [st EXCEPT !.buf = pending]

\* the stream after the loop body's writes for page k of doc
PageWritten(st, doc, k) ==
  LET st1 == FWrite(st, EncodeText(doc[k].markdown))
  IN IF k < Len(doc) THEN FWrite(st1, EncodeText(Separator)) ELSE st1

\* f.write(page.markdown); if i < len(pages) - 1: f.write("\n\n")
WritePage ==
  /\ pc = "page"
  /\ \/ /\ Exit1("markdown_write")
        /\ UNCHANGED <<fs, buf, fpos, i, j>>
     \/ LET st == PageWritten([data |-> fs[OutputName].data, pos |-> fpos,
                               buf |-> buf], ocr_response, i)
        IN /\ fs' = [fs EXCEPT ![OutputName] = File(st.data)]
           /\ fpos' = st.pos
           /\ buf' = st.buf
           /\ IF ocr_response[i].images # <<>>
              THEN /\ j' = 1 /\ pc' = "images" /\ UNCHANGED i
              ELSE AfterPage(i)
           /\ UNCHANGED running
  /\ UNCHANGED <<inputs, remote, out_dir, img_log>>

\* for image in page.images: save_image(image, output_dir)
SaveImage ==
  /\ pc = "images"
  /\ LET image == ocr_response[i].images[j]
     IN /\ fs' = SaveFiles(image, fs)
        /\ img_log' = Append(img_log,
                        [id |-> image.id, outcome |-> SaveOutcome(image, fs)])
  /\ IF j < Len(ocr_response[i].images)
     THEN /\ j' = j + 1 /\ UNCHANGED <<i, pc>>
     ELSE AfterPage(i)
  /\ UNCHANGED <<inputs, remote, out_dir, buf, fpos, running>>

\* variant: the handler of a failed flush does not exit
CloseOutputSwallows ==
  /\ pc = "close"
  /\ \/ /\ error' = "markdown_write"
        /\ UNCHANGED <<fs, buf, fpos>>
     \/ /\ fs' = [fs EXCEPT ![OutputName] =
                    File(IF buf = <<>> THEN fs[OutputName].data
                         ELSE WriteAt(fs[OutputName].data, fpos, buf))]
        /\ fpos' = fpos + Len(buf)
        /\ buf' = <<>>
        /\ UNCHANGED error
  /\ pc' = "exited"
  /\ exit_status' = 0
  /\ stdout' = Append(stdout, "Finished all!")
  /\ UNCHANGED <<inputs, remote, out_dir, i, j, img_log>>

\* leaving the with block closes f, which flushes it; back in main:
\* print("Finished all!") and a normal return
CloseOutput ==
  /\ pc = "close"
  /\ \/ /\ Exit1("markdown_write")
        /\ UNCHANGED <<fs, buf, fpos>>
     \/ /\ fs' = [fs EXCEPT ![OutputName] =
                    File(IF buf = <<>> THEN fs[OutputName].data
                         ELSE WriteAt(fs[OutputName].data, fpos, buf))]
        /\ fpos' = fpos + Len(buf)
        /\ buf' = <<>>
        /\ pc' = "exited"
        /\ exit_status' = 0
        /\ stdout' = Append(stdout, "Finished all!")
        /\ UNCHANGED error
  /\ UNCHANGED <<inputs, remote, out_dir, i, j, img_log>>

Next ==
  \/ LoadCredential
  \/ ResolveUrl
  \/ CheckInputFile
  \/ Upload
  \/ GetSignedUrl
  \/ CheckDocumentUrl
  \/ OcrProcess
  \/ MakeOutputDir
  \/ OpenOutput
  \/ WritePage
  \/ SaveImage
  \/ CloseOutput

Spec == Init /\ [][Next]_vars

TypeOK ==
  /\ pc \in {"credential", "resolve", "upload", "signed", "check_url", "invoke",
             "mkdir", "open", "page", "images", "close", "exited"}
  /\ exit_status \in {-1, 0, 1}
  /\ (pc = "exited") = (exit_status # -1)
  /\ ocr_response \in Documents

\* ================================================================= claims
Done == pc = "exited" /\ exit_status = 0

Writing == {"mkdir", "open", "page", "images", "close"}

\* the run got past the credential stage
ClientReady == pc # "credential" /\ error \notin {"no_api_key", "client_init"}

NetworkOps == {"upload", "get_signed_url", "ocr"}

\* the page texts joined by the separator, as code points
RECURSIVE JoinPages(_)
JoinPages(doc) ==
  IF doc = <<>> THEN <<>>
  ELSE IF Len(doc) = 1 THEN doc[1].markdown
  ELSE doc[1].markdown \o Separator \o JoinPages(Tail(doc))

\* the bytes the well-formed payloads stand for: "QQ==" is "A", "QkNE" is "BCD"
WellFormed(p) == p \in {PayloadA, PayloadBCD}
Malformed(p) == p = NoSchemePayload
DecodedBytes(p) == IF p = PayloadA THEN <<65>> ELSE <<66, 67, 68>>

CurrentImage == ocr_response[i].images[j]

\* ---------------------------------------------------------------------- C1
\* C1: after a run that ended successfully on a response of N >= 1 pages, the
\* Markdown file holds exactly the page texts in order, joined by "\n\n".
C1_MarkdownIsPagesJoined ==
  (Done /\ Len(ocr_response) >= 1) =>
    fs[OutputName] = File(EncodeText(JoinPages(ocr_response)))

\* the same holds of every response none of whose images is named like the
\* output file
MarkdownIsPagesJoinedUnlessClobbered ==
  (Done /\ \A k \in 1..Len(AllImages(ocr_response)) :
             AllImages(ocr_response)[k].id # OutputName) =>
    fs[OutputName] = File(EncodeText(JoinPages(ocr_response)))

C3_UploadThenSignedUrlThenOcr ==
  ~use_url =>
    LET order == <<"stat_input", "open_input", "upload", "get_signed_url", "ocr">>
        n == Len(trace)
    IN /\ n <= 5
       /\ \A k \in 1..n : trace[k].op = order[k]
       /\ n >= 4 => trace[3].ret \in FileIds /\ trace[4].arg = trace[3].ret
       /\ n >= 5 => trace[4].ret \in SignedUrls /\ trace[5].arg = trace[4].ret
       /\ (pc \in Writing \/ Done) =>
            n = 5 /\ \A k \in 1..n : trace[k].ret # Raised

C3_Witness ==
  /\ ~use_url
  /\ Done
  /\ Len(trace) = 5
  /\ trace[3].ret = "file-2"
  /\ trace[4].arg = "file-2"
  /\ trace[5].arg = "https://signed.example/1"

\* ---------------------------------------------------------------------- C4
\* C4: without the credential the run exits with status 1 at once: no file
\* access, no remote call, nothing created in the output location, whatever
\* the --url flag and the input file.
C4_NoCredentialExitsFirst ==
  /\ [](~env_has_key =>
          /\ trace = <<>>
          /\ pc \in {"credential", "exited"}
          /\ pc = "exited" => exit_status = 1 /\ error = "no_api_key")
  /\ [][~env_has_key => fs' = fs /\ out_dir' = out_dir]_vars

C4_Witness ==
  /\ ~env_has_key
  /\ ~use_url
  /\ input_kind = "file"
  /\ out_dir = "absent"
  /\ pc = "exited"
  /\ exit_status = 1

\* ---------------------------------------------------------------------- C5
\* C5: without --url, when the input path is missing or is not a regular
\* file the run exits with status 1 at the check: no remote call is made and
\* nothing is created in the output location.
C5_InvalidFileExitsBeforeNetwork ==
  /\ []((~use_url /\ input_kind \in {"absent", "dir"}) =>
          /\ \A k \in 1..Len(trace) : trace[k].op \notin NetworkOps
          /\ pc \in {"credential", "resolve", "exited"}
          /\ pc = "exited" => exit_status = 1)
  /\ [][(~use_url /\ input_kind \in {"absent", "dir"}) =>
          fs' = fs /\ out_dir' = out_dir]_vars

C5_Witness ==
  /\ ~use_url
  /\ input_kind = "dir"
  /\ error = "invalid_file"
  /\ exit_status = 1
  /\ trace = <<Call("stat_input", input_source, "dir")>>

\* ---------------------------------------------------------------------- C6
\* C6: save_image never ends the run: a malformed payload leaves the output
\* directory as it was, the loop goes on to the next image or page, and a
\* run that ends successfully has handled every image in order and has
\* written every page's text to the stream.
C6_ImageFailureDoesNotAbort ==
  /\ [][pc = "images" =>
          /\ pc' \in {"images", "page", "close"}
          /\ exit_status' = -1
          /\ Malformed(CurrentImage.image_base64) => fs' = fs
          /\ Len(img_log') = Len(img_log) + 1
          /\ img_log'[Len(img_log')].id = CurrentImage.id]_vars
  /\ [](Done =>
          /\ Len(img_log) = Len(AllImages(ocr_response))
          /\ \A k \in 1..Len(img_log) :
               img_log[k].id = AllImages(ocr_response)[k].id
          /\ fpos = Len(EncodeText(JoinPages(ocr_response))))

C6_Witness ==
  /\ Done
  /\ Len(ocr_response) = 2
  /\ Len(ocr_response[1].images) = 2
  /\ Malformed(ocr_response[1].images[1].image_base64)
  /\ Len(img_log) = 2
  /\ img_log[1].outcome = "parse_error"
  /\ img_log[2].outcome = "write_error"

C8_EmptyPayloadIsNoOp ==
  [][(pc = "images" /\ CurrentImage.image_base64 = EmptyPayload) =>
        /\ fs' = fs
        /\ out_dir' = out_dir
        /\ <<buf', fpos'>> = <<buf, fpos>>
        /\ exit_status' = -1
        /\ img_log' = Append(img_log, [id |-> CurrentImage.id, outcome |-> "empty"])
        /\ IF j < Len(ocr_response[i].images)
           THEN pc' = "images" /\ i' = i /\ j' = j + 1
           ELSE pc' \in {"page", "close"}]_vars

C8_Witness ==
  /\ pc = "images"
  /\ j = 2
  /\ img_log = <<[id |-> "img-1", outcome |-> "empty"]>>
  /\ fs["img-1"] = File(OldData)

\* ---------------------------------------------------------------------- C9
\* the pipeline stage a position of main belongs to
Stage(p) ==
  CASE p \in {"credential", "resolve"} -> 1
    [] p \in {"upload", "signed", "check_url"} -> 2
    [] p = "invoke" -> 3
    [] p \in Writing -> 4
    [] p = "exited" -> 5

\* C9: the stages run in order, one after the other; a failing step ends the
\* run with status 1 without touching what later stages produce, and nothing
\* runs after the exit; status 0 and "Finished all!" come together and only
\* after every stage succeeded.
C9_StagesInOrderAndExitCodes ==
  /\ [][/\ pc # "exited"
        /\ pc' = "exited" \/ Stage(pc') \in {Stage(pc), Stage(pc) + 1}
        /\ exit_status' = 1 =>
             /\ error' # None
             /\ <<document_url', ocr_response', out_dir', fs', stdout'>>
                  = <<document_url, ocr_response, out_dir, fs, stdout>>]_vars
  /\ [](/\ (exit_status = 1) = (error # None)
        /\ (exit_status = 0) = (stdout = <<"Finished all!">>)
        /\ stdout \in {<<>>, <<"Finished all!">>}
        /\ Stage(pc) \in {3, 4} => document_url \notin {None, ""}
        /\ Stage(pc) = 4 => trace[Len(trace)] = Call("ocr", document_url, "pages")
        /\ exit_status = 0 =>
             /\ env_has_key
             /\ trace # <<>>
             /\ \A k \in 1..Len(trace) : trace[k].ret # Raised
             /\ trace[Len(trace)] = Call("ocr", document_url, "pages")
             /\ out_dir = "dir"
             /\ fs[OutputName].kind = "file"
             /\ buf = <<>>
             /\ i = Len(ocr_response)
             /\ Len(img_log) = Len(AllImages(ocr_response)))

C9_Witness ==
  /\ Done
  /\ ~use_url
  /\ Len(trace) = 5
  /\ Len(ocr_response) = 2
  /\ stdout = <<"Finished all!">>

\* --------------------------------------------------------------------- C10
\* C10: a response without pages is a success: the run ends with status 0,
\* the output directory exists, the Markdown file exists and is empty, and
\* save_image was never called; with such a response only the output
\* location can make the run fail.
C10_EmptyResponseGivesEmptyFile ==
  /\ [](ocr_response = <<>> =>
          /\ Done =>
               /\ out_dir = "dir"
               /\ fs[OutputName] = File(<<>>)
               /\ img_log = <<>>
               /\ stdout = <<"Finished all!">>
          /\ (exit_status = 1 /\ trace # <<>>
                /\ trace[Len(trace)].op = "ocr" /\ trace[Len(trace)].ret = "pages") =>
               error \in {"save_result", "markdown_write"})
  /\ [][(ocr_response' = <<>> /\ pc \in Writing) =>
          \A n \in Names \ {OutputName} : fs'[n] = fs[n]]_vars

C10_Witness ==
  /\ Done
  /\ ocr_response = <<>>
  /\ trace # <<>>
  /\ fs[OutputName] = File(<<>>)
  /\ fs["img-1"] = File(OldData)

====
